---- MODULE Spec2Model ----
(***************************************************************************)
(* Model of pilot/cmd/sidecar-injector/main.go: the startup sequence of    *)
(* rootCmd.RunE / patchCertLoop and the background loop that re-patches    *)
(* the caBundle of the mutating webhook configuration on every timer tick  *)
(* and re-reads the CA certificate file on every fsnotify event.           *)
(*                                                                         *)
(* The certificate file, the watched directory, the timer and the remote   *)
(* webhook configuration are the environment; they change concurrently     *)
(* with the program, so patchCertLoop is modelled one external call at a   *)
(* time and the patch call is modelled as a call step and a return step.   *)
(***************************************************************************)
EXTENDS Integers, Sequences, FiniteSets, TLC

(* ---------------------------------------------------------------- bounds *)

\* number of distinct byte values a file content is built from
NumByteValues == 2
\* number of times the ticker fires in a behaviour
MaxTicks == 2
\* number of changes made in the watched directory in a behaviour
MaxWrites == 2

(* ------------------------------------------------------------ data model *)

\* flags.caCertFile, flags.webhookConfigName and flags.webhookName (the defaults)
CaCertFile == "/etc/istio/certs/root-cert.pem"
WebhookConfigName == "istio-sidecar-injector"
WebhookName == "sidecar-injector.istio.io"

\* contents of a file / values of a []byte: the empty content and the
\* one-byte contents.  A nil []byte has length 0 and is the empty sequence.
Bytes == {<<>>} \cup {<<b>> : b \in 1..NumByteValues}

NonEmpty == {b \in Bytes : Len(b) > 0}

\* the file at flags.caCertFile is a record: readable with some content, or not
\* readable (missing, permission denied), and then without content
Unreadable == [readable |-> FALSE, data |-> <<>>]

\* the file when the process starts: not readable, empty, or holding a
\* certificate.  The bytes are never interpreted, so one non-empty content
\* stands for every content the file may hold at startup.
StartFiles == {Unreadable, [readable |-> TRUE, data |-> <<>>], [readable |-> TRUE, data |-> <<1>>]}

\* ioutil.ReadFile(flags.caCertFile): the whole content and no error, or a
\* nil slice and an error
ReadFile(f) == IF f.readable THEN [b |-> f.data, err |-> FALSE] ELSE [b |-> <<>>, err |-> TRUE]

VARIABLES
  pc,          \* position of rootCmd.RunE / patchCertLoop in the main goroutine
  runErr,      \* the call whose error RunE returned, "none" if none
  webhookRun,  \* go wh.Run(stop) has been launched
  loopPc,      \* position of the background goroutine
  caCertPem,   \* the cached CA bundle (local variable captured by the goroutine)
  watching,    \* watcher.Watch(watchDir) has succeeded
  events,      \* notifications pending on watcher.Event
  tickReady,   \* a tick is buffered in tickerC (capacity 1)
  file,        \* the certificate file
  caBundle,    \* the CA-bundle field of the webhook entry in the remote resource
  rest,        \* every other field and entry of the remote resource
  patchCalls,  \* history: the patch calls issued, in order, with their outcome
  fileHistory, \* history: the contents the certificate file has held
  lastRead,    \* history: content returned by the most recent successful read
  failedRead,  \* history: the most recent read of the loop failed
  fires,       \* history: number of ticker firings
  burst,       \* history: notifications handled since the last patch call returned
  tickFresh,   \* history: the latest tick sent on tickerC fired after the last file change
  dirChanges,  \* history: number of changes made in the watched directory
  writtenRunning, \* history: the file's content was written while the loop ran
  heal,        \* history: external overwrites of caBundle and their repair
  targets,     \* history: the resource and entry names passed to the patch calls
  pathsRead,   \* history: the paths passed to ioutil.ReadFile
  otherOnly    \* history: every change in the directory so far was to another file

vars == <<pc, runErr, webhookRun, loopPc, caCertPem, watching, events, tickReady,
          file, caBundle, patchCalls, fileHistory, lastRead, failedRead, fires,
          burst, tickFresh, dirChanges, writtenRunning, heal, rest, targets,
          pathsRead, otherOnly>>

mainVars == <<pc, runErr, webhookRun>>
loopVars == <<loopPc, caCertPem, tickReady>>
envVars  == <<file, caBundle, rest, fileHistory, dirChanges, writtenRunning, tickFresh,
              otherOnly>>
histVars == <<patchCalls, lastRead, failedRead, fires, burst, heal, targets, pathsRead>>

Init ==
  /\ pc = "CreateClientset"
  /\ runErr = "none"
  /\ webhookRun = FALSE
  /\ loopPc = "notStarted"
  /\ caCertPem = <<>>
  /\ watching = FALSE
  /\ events = 0
  /\ tickReady = FALSE
  /\ file \in StartFiles
  /\ caBundle \in Bytes
  /\ patchCalls = <<>>
  /\ fileHistory = IF file.readable THEN {file.data} ELSE {}
  /\ lastRead = <<>>
  /\ failedRead = FALSE
  /\ fires = 0
  /\ burst = 0
  /\ tickFresh = FALSE
  /\ dirChanges = 0
  /\ writtenRunning = FALSE
  /\ heal = "clean"
  /\ rest = "original"
  /\ targets = {}
  /\ pathsRead = {}
  /\ otherOnly = TRUE

(* ------------------------------------------------- startup: patchCertLoop *)

\* a prologue that drops the error of a call and goes on
StepIgnoreErr(ok, next) == next

\* where RunE goes after a call of patchCertLoop's prologue: on to the next
\* call, or out with the error (patchCertLoop returns err, RunE returns it)
Step(ok, next) == IF ok THEN next ELSE "Error"

\* the error RunE returns when the call named `call` fails
ErrOf(ok, call) == IF ok THEN "none" ELSE call

\* kube.CreateClientset(flags.kubeconfigFile, "")
CreateClientset ==
  /\ pc = "CreateClientset"
  /\ \E ok \in BOOLEAN :
       /\ pc' = Step(ok, "ReadFile")
       /\ runErr' = ErrOf(ok, "CreateClientset")
  /\ UNCHANGED <<webhookRun, loopVars, watching, events, envVars, histVars>>

\* caCertPem, err := ioutil.ReadFile(flags.caCertFile)
InitialRead ==
  /\ pc = "ReadFile"
  /\ LET r == ReadFile(file) IN
       /\ pc' = Step(~r.err, "NewWatcher")
       /\ runErr' = ErrOf(~r.err, "ReadFile")
       /\ caCertPem' = r.b
       /\ lastRead' = IF r.err THEN lastRead ELSE r.b
  /\ pathsRead' = pathsRead \cup {CaCertFile}
  /\ UNCHANGED <<webhookRun, loopPc, tickReady, watching, events, envVars,
                 patchCalls, failedRead, fires, burst, heal, targets>>

\* watcher, err := fsnotify.NewWatcher()
NewWatcher ==
  /\ pc = "NewWatcher"
  /\ \E ok \in BOOLEAN :
       /\ pc' = Step(ok, "Watch")
       /\ runErr' = ErrOf(ok, "NewWatcher")
  /\ UNCHANGED <<webhookRun, loopVars, watching, events, envVars, histVars>>

\* watcher.Watch(watchDir), watchDir the directory of flags.caCertFile
Watch ==
  /\ pc = "Watch"
  /\ \E ok \in BOOLEAN :
       /\ pc' = Step(ok, "Launch")
       /\ runErr' = ErrOf(ok, "Watch")
       /\ watching' = ok
  /\ UNCHANGED <<webhookRun, loopVars, events, envVars, histVars>>

\* a patchCertLoop that runs the loop in the calling goroutine (no go statement)
AfterLaunchInline == "Loop"

\* where RunE is once the go statement has run: patchCertLoop returns nil at
\* once and RunE goes on to run the webhook server
AfterLaunch == "RunWebhook"

\* go func() { tickerC := time.NewTicker(time.Second).C; for { select ... } }()
\* followed by return nil
Launch ==
  /\ pc = "Launch"
  /\ pc' = AfterLaunch
  /\ loopPc' = "select"
  /\ UNCHANGED <<runErr, webhookRun, caCertPem, tickReady, watching, events,
                 envVars, histVars>>

\* stop := make(chan struct{}); go wh.Run(stop); cmd.WaitSignal(stop)
RunWebhook ==
  /\ pc = "RunWebhook"
  /\ pc' = "WaitSignal"
  /\ webhookRun' = TRUE
  /\ UNCHANGED <<runErr, loopVars, watching, events, envVars, histVars>>

(* ------------------------------------------------------ the background loop *)

\* a tick case that passes a nil slice instead of the cached bundle
PatchArgNil(cache) == <<>>

\* the value the tick case passes to util.PatchMutatingWebhookConfig
PatchArg(cache) == cache

\* a tick case that passes the two names in the wrong order
PatchTargetSwapped == [config |-> WebhookName, entry |-> WebhookConfigName]

\* the resource name and the entry name the tick case passes to
\* util.PatchMutatingWebhookConfig
PatchTarget == [config |-> WebhookConfigName, entry |-> WebhookName]

\* a tick case that issues the patch call in a goroutine of its own
InCallAsync == "select"

\* where the goroutine is while the patch call has not returned: inside it
InCall == "patching"

\* an event case that reads the file named by the notification's directory
RefreshPathDir == "/etc/istio/certs/"

\* the path the event case passes to ioutil.ReadFile
RefreshPath == CaCertFile

\* util.PatchMutatingWebhookConfig on the rest of the resource: a call naming
\* this resource and this webhook entry leaves every other field and entry as
\* it is; a successful call naming another entry changes that entry
PatchOthers(others, target, ok) ==
  IF ok /\ target # [config |-> WebhookConfigName, entry |-> WebhookName]
    THEN "patched" ELSE others

\* util.PatchMutatingWebhookConfig(..., webhookConfigName, webhookName, caCertPem):
\* a successful call overwrites the entry's CA-bundle field with the value given,
\* a failed call leaves it as it is
PatchMutatingWebhookConfig(field, val, ok) == IF ok THEN val ELSE field

\* an event case that patches at once, without waiting for the tick
AfterEventCallsPatch(calls, cache) == Append(calls, [val |-> cache, res |-> "ok"])

\* the patch calls issued once the event case has run: it issues none
AfterEventCalls(calls, cache) == calls

\* an event case that assigns the result of the read without testing err
RefreshBlank(cache, r) == r.b

\* an event case that reads the file and never assigns the result
RefreshStale(cache, r) == cache

\* the event case: if b, err := ioutil.ReadFile(...); err == nil { caCertPem = b }
\* else { log.Errorf(...) }
Refresh(cache, r) == IF ~r.err THEN r.b ELSE cache

\* a tick case that leaves the loop when the patch call fails
AfterPatchStop(ok) == IF ok THEN "select" ELSE "stopped"

\* where the goroutine is after the tick case: the error is logged and the for
\* loop goes back to the select
AfterPatch(ok) == "select"

\* the ticker sends on tickerC once per second; a tick the loop has not yet
\* received is dropped (the channel holds one)
TimerFire ==
  /\ loopPc # "notStarted"
  /\ fires < MaxTicks
  /\ tickReady' = TRUE
  /\ fires' = fires + 1
  /\ tickFresh' = IF tickReady THEN tickFresh ELSE TRUE
  /\ UNCHANGED <<mainVars, loopPc, caCertPem, watching, events, file, caBundle,
                 fileHistory, dirChanges, writtenRunning, patchCalls, lastRead,
                 failedRead, burst, heal, rest, targets, pathsRead, otherOnly>>

\* case <-tickerC: the call of util.PatchMutatingWebhookConfig is issued
HandleTick ==
  /\ loopPc = "select"
  /\ tickReady
  /\ tickReady' = FALSE
  /\ loopPc' = InCall
  /\ patchCalls' = Append(patchCalls, [val |-> PatchArg(caCertPem), res |-> "inflight"])
  /\ targets' = targets \cup {PatchTarget}
  /\ UNCHANGED <<mainVars, caCertPem, watching, events, envVars,
                 lastRead, failedRead, fires, burst, heal, pathsRead>>

\* case <-tickerC, continued: the call returns, nil or an error that is logged
PatchReturn ==
  /\ loopPc = "patching"
  /\ \E ok \in BOOLEAN :
       LET n == Len(patchCalls) IN
       /\ caBundle' = PatchMutatingWebhookConfig(caBundle, patchCalls[n].val, ok)
       /\ patchCalls' = [patchCalls EXCEPT ![n].res = IF ok THEN "ok" ELSE "err"]
       /\ loopPc' = AfterPatch(ok)
       /\ heal' = IF ok /\ heal = "dirty" THEN "healed" ELSE heal
       /\ rest' = PatchOthers(rest, PatchTarget, ok)
  /\ burst' = 0
  /\ UNCHANGED <<mainVars, caCertPem, tickReady, watching, events, file,
                 fileHistory, dirChanges, writtenRunning, tickFresh, lastRead,
                 failedRead, fires, targets, pathsRead, otherOnly>>

\* an event case that ends the process when the read fails (log.Fatalf)
AfterRefreshFatal(p, err) == IF err THEN "Error" ELSE p

\* where RunE is after the event case: the read error is logged with
\* log.Errorf and nothing else happens
AfterRefresh(p, err) == p

\* case <-watcher.Event: the file is read again
HandleEvent ==
  /\ loopPc = "select"
  /\ events > 0
  /\ events' = events - 1
  /\ LET r == ReadFile(file) IN
       /\ caCertPem' = Refresh(caCertPem, r)
       /\ lastRead' = IF r.err THEN lastRead ELSE r.b
       /\ failedRead' = r.err
       /\ pc' = AfterRefresh(pc, r.err)
  /\ patchCalls' = AfterEventCalls(patchCalls, caCertPem')
  /\ burst' = burst + 1
  /\ pathsRead' = pathsRead \cup {RefreshPath}
  /\ UNCHANGED <<runErr, webhookRun, loopPc, tickReady, watching, envVars, fires,
                 heal, targets>>

(* ---------------------------------------------------------- the environment *)

\* the process is past its initial read and has not exited
Started == pc \notin {"CreateClientset", "ReadFile", "Error"}

\* a change in the watched directory is notified once the watch is registered
Notify == IF watching THEN events + 1 ELSE events

\* something writes content b to the certificate file
WriteFile ==
  /\ Started
  /\ dirChanges < MaxWrites
  /\ \E b \in Bytes :
       /\ file' = [readable |-> TRUE, data |-> b]
       /\ fileHistory' = fileHistory \cup {b}
  /\ dirChanges' = dirChanges + 1
  /\ events' = Notify
  /\ writtenRunning' = (loopPc # "notStarted")
  /\ tickFresh' = FALSE
  /\ otherOnly' = FALSE
  /\ UNCHANGED <<mainVars, loopVars, watching, caBundle, rest, histVars>>

\* something removes the certificate file or makes it unreadable
RemoveFile ==
  /\ Started
  /\ dirChanges < MaxWrites
  /\ file.readable
  /\ file' = Unreadable
  /\ dirChanges' = dirChanges + 1
  /\ events' = Notify
  /\ writtenRunning' = FALSE
  /\ tickFresh' = FALSE
  /\ otherOnly' = FALSE
  /\ UNCHANGED <<mainVars, loopVars, watching, caBundle, rest, fileHistory, histVars>>

\* something changes another file of the watched directory
TouchOther ==
  /\ Started
  /\ watching
  /\ dirChanges < MaxWrites
  /\ dirChanges' = dirChanges + 1
  /\ events' = Notify
  /\ UNCHANGED <<mainVars, loopVars, watching, file, caBundle, rest, fileHistory,
                 writtenRunning, tickFresh, otherOnly, histVars>>

\* another actor overwrites the CA-bundle field of the remote resource while
\* the loop runs (a reapplied manifest clears it)
ExternalOverwrite ==
  /\ loopPc # "notStarted"
  /\ \E v \in Bytes :
       /\ v # caBundle
       /\ caBundle' = v
       /\ heal' = IF v # caCertPem THEN "dirty" ELSE heal
  /\ UNCHANGED <<mainVars, loopVars, watching, events, file, fileHistory,
                 dirChanges, writtenRunning, tickFresh, patchCalls, lastRead,
                 failedRead, fires, burst, rest, targets, pathsRead, otherOnly>>

\* another actor changes other fields or entries of the remote resource while
\* a patch call of the loop is in flight
ExternalModifyRest ==
  /\ loopPc = "patching"
  /\ rest = "original"
  /\ rest' = "modified"
  /\ UNCHANGED <<mainVars, loopVars, watching, events, file, caBundle, fileHistory,
                 dirChanges, writtenRunning, tickFresh, otherOnly, histVars>>

Next ==
  \/ CreateClientset
  \/ InitialRead
  \/ NewWatcher
  \/ Watch
  \/ Launch
  \/ RunWebhook
  \/ TimerFire
  \/ HandleTick
  \/ PatchReturn
  \/ HandleEvent
  \/ WriteFile
  \/ RemoveFile
  \/ TouchOther
  \/ ExternalOverwrite
  \/ ExternalModifyRest

Spec == Init /\ [][Next]_vars

(* ------------------------------------------------------------------ claims *)

\* the background goroutine has been launched
Running == loopPc # "notStarted"

\* patchCertLoop is past its initial read without an error
Constructed == pc \in {"NewWatcher", "Watch", "Launch", "RunWebhook", "WaitSignal"}

\* the patch call issued last, in the next state and in this one
LastCall == patchCalls[Len(patchCalls)]
LastCallNext == patchCalls'[Len(patchCalls')]

\* the file holds a non-empty content that was written while the loop ran
HoldsWritten == writtenRunning /\ file.readable /\ file.data \in NonEmpty

\* C1 as stated: once a non-empty B has been written to the file while the loop
\* runs, every tick handled from then on issues a patch call carrying B, and the
\* handling of a tick leaves the remote CA-bundle field equal to the value carried.
C1_FirstTickAfterWritePatches ==
  /\ [][(HandleTick /\ HoldsWritten) => LastCallNext.val = file.data]_vars
  /\ [][PatchReturn => caBundle' = LastCall.val]_vars

\* C1 amended: once a non-empty B has been written to the file while the loop
\* runs and no notification is pending any more, every tick handled issues a
\* patch call carrying B, and when that call succeeds the remote CA-bundle field
\* equals the value carried.
C1_TickAfterRefreshPatches ==
  /\ [][(HandleTick /\ HoldsWritten /\ events = 0) => LastCallNext.val = file.data]_vars
  /\ [][(PatchReturn /\ LastCallNext.res = "ok") => caBundle' = LastCall.val]_vars

\* C1 witness: a second content was written while the loop ran and the second
\* patch call carried it into the remote resource.
C1_Witness ==
  /\ HoldsWritten
  /\ Len(patchCalls) = 2
  /\ patchCalls[1].val # file.data
  /\ patchCalls[2] = [val |-> file.data, res |-> "ok"]
  /\ caBundle = file.data

\* C2 as stated: after an external overwrite, the handling of the next tick
\* leaves the remote CA-bundle field equal to the cached bundle.
C2_EveryTickRestores == [][PatchReturn => caBundle' = caCertPem]_vars

\* C2 amended: the handling of a tick whose patch call succeeds leaves the remote
\* CA-bundle field equal to the cached bundle, whatever an external actor wrote
\* to it before or during the call.
C2_SuccessfulTickRestores ==
  [][(PatchReturn /\ LastCallNext.res = "ok") => caBundle' = caCertPem]_vars

\* C2 witness: an external actor set the field to a value other than the cached
\* bundle while the loop ran, and a later patch call restored the cached bundle.
C2_Witness == heal = "healed" /\ caBundle = caCertPem /\ Len(caCertPem) > 0

\* C3: a notification whose read fails leaves the cached bundle as it was, and a
\* patch call issued while the most recent read has failed carries the content
\* of the last successful read.
C3_FailedReadKeepsCache ==
  /\ [][(HandleEvent /\ ReadFile(file).err) => caCertPem' = caCertPem]_vars
  /\ [][(HandleTick /\ failedRead) => LastCallNext.val = lastRead]_vars

\* C3 witness: the file was removed, the refresh failed, and the patch call in
\* flight carries the non-empty content read before.
C3_Witness ==
  /\ failedRead
  /\ ~file.readable
  /\ loopPc = "patching"
  /\ LastCall.val = lastRead
  /\ Len(lastRead) > 0

\* C4 as stated: once construction has succeeded the cached bundle is non-empty.
C4_CacheNeverEmpty == (Constructed \/ Running) => Len(caCertPem) > 0

\* C4 amended: once construction has succeeded the cached bundle is non-empty
\* unless the file has held the empty content, and a failed initial read ends
\* construction with an error and without a cached bundle.
C4_CacheEmptyOnlyFromEmptyFile ==
  /\ (Constructed \/ Running) => (Len(caCertPem) > 0 \/ <<>> \in fileHistory)
  /\ runErr = "ReadFile" => (pc = "Error" /\ ~Running /\ caCertPem = <<>>)

\* C4 witness: the loop runs, the file has been removed and its notification
\* handled, and the cached bundle is still non-empty.
C4_Witness ==
  /\ Running
  /\ ~file.readable
  /\ events = 0
  /\ failedRead
  /\ Len(caCertPem) > 0

\* C5: every patch call issued has consumed one firing of the ticker, however
\* many notifications were handled, and the call in flight carries the content
\* of the most recent successful read.
C5_OnePatchPerTick ==
  /\ Len(patchCalls) + (IF tickReady THEN 1 ELSE 0) <= fires
  /\ loopPc = "patching" => LastCall.val = lastRead

\* C5 witness: two notifications were handled before the only firing of the
\* ticker was handled, and one patch call was issued, carrying the file content.
C5_Witness ==
  /\ burst >= 2
  /\ fires = 1
  /\ loopPc = "patching"
  /\ Len(patchCalls) = 1
  /\ file.readable
  /\ LastCall.val = file.data

\* C6: a failed patch call brings the loop back to its select with the cached
\* bundle, the buffered tick, the watch and the pending notifications as they
\* were, and a running loop is only ever at the select or inside a patch call.
C6_FailureChangesNothing ==
  /\ [][(PatchReturn /\ LastCallNext.res = "err") =>
          (loopPc' = "select" /\ UNCHANGED <<caCertPem, tickReady, watching, events, caBundle>>)]_vars
  /\ [](Running => loopPc \in {"select", "patching"})
  /\ [](loopPc = "select" /\ tickReady => ENABLED HandleTick)

\* C6 witness: every patch call but the last has failed and the last has been
\* issued all the same.
C6_Witness ==
  /\ Len(patchCalls) = MaxTicks
  /\ \A i \in 1..(MaxTicks - 1) : patchCalls[i].res = "err"

\* C7: once the initial read has succeeded the cached bundle equals the content
\* returned by the most recent successful read.
C7_CacheIsLastRead == (Constructed \/ Running) => caCertPem = lastRead

\* C7 witness: the file has held two contents, the second written while the loop
\* ran, its notification has been handled and the cache holds it.
C7_Witness ==
  /\ HoldsWritten
  /\ events = 0
  /\ Cardinality(fileHistory) >= 2
  /\ caCertPem = file.data

\* C8: every patch call carries a content the file has held, and when the file
\* was changed at most once since startup no patch call that follows one
\* carrying the current content carries another content.
C8_PatchedValuesComeFromFile ==
  /\ \A i \in 1..Len(patchCalls) : patchCalls[i].val \in fileHistory
  /\ (dirChanges <= 1 /\ file.readable) =>
       \A i, j \in 1..Len(patchCalls) :
         (i < j /\ patchCalls[i].val = file.data) => patchCalls[j].val = file.data

\* C8 witness: the file was rewritten once, the first patch call carried the
\* content held at startup and the second the new content.
C8_Witness ==
  /\ dirChanges = 1
  /\ file.readable
  /\ Len(patchCalls) = 2
  /\ patchCalls[1].val # file.data
  /\ patchCalls[2].val = file.data

\* C9 as stated: when the file was rewritten while the loop ran and the tick
\* fired after the rewrite, the patch call issued for that tick carries the new
\* content.
C9_TickAfterEventCarriesNew ==
  [][(HandleTick /\ tickFresh /\ writtenRunning /\ file.readable)
       => LastCallNext.val = file.data]_vars

\* C9 amended: when the file was rewritten while the loop ran, the tick fired
\* after the rewrite and no notification is pending when the tick is received,
\* the patch call issued for that tick carries the new content.
C9_TickAfterHandledEventCarriesNew ==
  [][(HandleTick /\ tickFresh /\ writtenRunning /\ file.readable /\ events = 0)
       => LastCallNext.val = file.data]_vars

\* C9 witness: the rewrite, then its notification, then the tick: the second
\* patch call is in flight with the new content.
C9_Witness ==
  /\ loopPc = "patching"
  /\ ~tickReady
  /\ tickFresh
  /\ writtenRunning
  /\ file.readable
  /\ events = 0
  /\ Len(patchCalls) = 2
  /\ patchCalls[1].val # file.data
  /\ patchCalls[2].val = file.data

\* C10: when the initial read or the watch registration fails, RunE has returned
\* the error, the loop is not started, no patch call is issued and the webhook
\* server is not run.
C10_StartupFailureStartsNothing ==
  runErr \in {"ReadFile", "Watch"} =>
    (pc = "Error" /\ ~Running /\ patchCalls = <<>> /\ ~webhookRun /\ fires = 0)

\* C10 witness: the watch registration failed after a successful read.
C10_Witness == runErr = "Watch" /\ pc = "Error" /\ Len(caCertPem) > 0

\* the calls of patchCertLoop whose error ends startup
StartupCalls == {"CreateClientset", "ReadFile", "NewWatcher", "Watch"}

\* the names the flags give the patch calls
NamedTarget == [config |-> WebhookConfigName, entry |-> WebhookName]

\* the patch calls that have not returned
InFlight == {i \in 1..Len(patchCalls) : patchCalls[i].res = "inflight"}

\* C11 as stated: startup fails only when the initial read of the certificate
\* file fails.
C11_OnlyReadIsFatal == pc = "Error" => runErr = "ReadFile"

\* C11 amended: startup fails exactly when one of the four calls of
\* patchCertLoop fails (clientset creation, initial read, watcher creation,
\* watch registration), and a failed initial read is one of them.
C11_AnyStartupCallIsFatal ==
  /\ runErr \in StartupCalls \cup {"none"}
  /\ pc = "Error" <=> runErr # "none"
  /\ runErr = "ReadFile" => pathsRead = {CaCertFile}
  /\ runErr \in {"NewWatcher", "Watch"} => (pathsRead = {CaCertFile} /\ caCertPem = lastRead)

\* C11 witness: the initial read succeeded with a non-empty content and startup
\* failed all the same, at the creation of the watcher.
C11_Witness ==
  /\ pc = "Error"
  /\ runErr = "NewWatcher"
  /\ pathsRead = {CaCertFile}
  /\ Len(caCertPem) > 0

\* C12: the goroutine is at one place at a time, at most one patch call is in
\* flight, it is the call issued last, and one is in flight exactly while the
\* goroutine is inside the tick case.
C12_OneHandlerAtATime ==
  /\ loopPc \in {"notStarted", "select", "patching"}
  /\ Cardinality(InFlight) <= 1
  /\ InFlight \subseteq {Len(patchCalls)}
  /\ (InFlight # {}) <=> (loopPc = "patching")

\* C12 witness: a patch call is in flight while a tick and a notification are
\* both ready, and it is the only call issued.
C12_Witness ==
  /\ loopPc = "patching"
  /\ tickReady
  /\ events > 0
  /\ Len(patchCalls) = 1
  /\ InFlight = {1}

\* C13: handling a notification issues no patch call and leaves the remote
\* resource, the position of both goroutines, the watch and the buffered tick
\* as they were.
C13_EventNeverPatches ==
  [][HandleEvent => UNCHANGED <<patchCalls, targets, caBundle, rest, loopPc, pc,
                                runErr, webhookRun, watching, tickReady, file>>]_vars

\* C13 witness: a notification was handled and replaced the cached bundle, no
\* patch call has been issued and the remote field still differs from the cache.
C13_Witness ==
  /\ burst >= 1
  /\ patchCalls = <<>>
  /\ HoldsWritten
  /\ caCertPem = file.data
  /\ Cardinality(fileHistory) >= 2
  /\ caBundle # caCertPem

\* C14: the tick case, whether its patch call returns nil or an error, leaves
\* the cached bundle, the watch, the pending notifications and the path read
\* as they were, names the resource and the entry the flags name, and passes
\* the cached bundle of that moment.
C14_TickChangesNoState ==
  /\ [][(HandleTick \/ PatchReturn) =>
          (UNCHANGED <<caCertPem, lastRead, watching, events, pathsRead, file>>
           /\ targets' = {NamedTarget})]_vars
  /\ [][HandleTick => LastCallNext.val = caCertPem]_vars

\* C14 witness: a patch call failed and a later one succeeded, and the cached
\* bundle is the same non-empty content both carried.
C14_Witness ==
  /\ Len(patchCalls) = 2
  /\ patchCalls[1] = [val |-> caCertPem, res |-> "err"]
  /\ patchCalls[2] = [val |-> caCertPem, res |-> "ok"]
  /\ Len(caCertPem) > 0
  /\ targets = {NamedTarget}

\* C15: while the loop runs the process has not ended with an error, the
\* goroutine is at the select or inside a patch call, and at the select a
\* pending notification can be handled and a buffered tick can be handled,
\* whatever reads and patch calls have failed before.
C15_NoRunningErrorIsTerminal ==
  Running =>
    /\ pc # "Error"
    /\ runErr = "none"
    /\ loopPc \in {"select", "patching"}
    /\ (loopPc = "select" /\ events > 0) => ENABLED HandleEvent
    /\ (loopPc = "select" /\ tickReady) => ENABLED HandleTick

\* C15 witness: a patch call has failed and a refresh read has failed, and the
\* loop has issued a further patch call after both.
C15_Witness ==
  /\ failedRead
  /\ Len(patchCalls) = 2
  /\ patchCalls[1].res = "err"
  /\ loopPc = "patching"
  /\ pc = "WaitSignal"

\* C16: while a patch call has not returned the goroutine can take neither the
\* tick case nor the event case, and any step taken meanwhile, other than the
\* return of the call, leaves the cached bundle, the patch calls issued and the
\* pending notifications and buffered tick unhandled.
C16_HangingPatchStallsLoop ==
  /\ [](InFlight # {} => (~ENABLED HandleTick /\ ~ENABLED HandleEvent))
  /\ [][(InFlight # {} /\ InFlight' # {}) =>
          (caCertPem' = caCertPem /\ lastRead' = lastRead /\ patchCalls' = patchCalls
           /\ events' >= events /\ (tickReady => tickReady'))]_vars

\* C16 witness: the second patch call is in flight, the file has been rewritten
\* meanwhile and its notification waits, and the cached bundle is the old content.
C16_Witness ==
  /\ InFlight = {2}
  /\ events > 0
  /\ HoldsWritten
  /\ caCertPem # file.data
  /\ patchCalls[2].val = caCertPem

\* C17: once the loop is launched RunE is past patchCertLoop with no error, and
\* its next steps (the launch itself, then running the webhook server) can be
\* taken whatever the loop and its patch calls are doing.
C17_LaunchDoesNotWait ==
  /\ Running => (pc \in {"RunWebhook", "WaitSignal"} /\ runErr = "none")
  /\ pc = "Launch" => ENABLED Launch
  /\ pc = "RunWebhook" => ENABLED RunWebhook
  /\ pc = "WaitSignal" <=> webhookRun

\* C17 witness: the webhook server runs and the ticker has not fired once.
C17_Witness ==
  /\ webhookRun
  /\ pc = "WaitSignal"
  /\ Running
  /\ fires = 0
  /\ patchCalls = <<>>

\* C18: every read is of the configured certificate path, and as long as every
\* change in the watched directory was to another file the cached bundle is the
\* content the certificate file holds, however many refreshes have run.
C18_UnrelatedChangeKeepsCache ==
  /\ pathsRead \subseteq {CaCertFile}
  /\ (otherOnly /\ (Constructed \/ Running)) => (file.readable /\ caCertPem = file.data)

\* C18 witness: only another file of the directory has changed, the notification
\* has been handled, and the cached bundle is the content of the certificate file.
C18_Witness ==
  /\ otherOnly
  /\ dirChanges >= 1
  /\ burst >= 1
  /\ events = 0
  /\ caCertPem = file.data
  /\ Len(caCertPem) > 0

C20_QuietCacheIsFile ==
  (loopPc = "select" /\ events = 0 /\ file.readable) => caCertPem = file.data

====
